---- MODULE Spec2Model ----
(***************************************************************************)
(* Model of the relevance ranking of zotero-arxiv-daily                    *)
(* (src/recommender.py): provider selection, the remote provider's batched *)
(* encode, cosine similarity, recency weighting and rerank_paper.          *)
(*                                                                         *)
(* Numbers.  Similarities and weights are fixed-point numbers in units of  *)
(* 1/SCALE; a score is kept in units of 1/(SCALE*SCALE), so 0.0 is 0 and   *)
(* the order of two scores is the order of their integers.                 *)
(* Vectors.  An array of embeddings keeps its row dimension d and, of each *)
(* row, the leading coordinates; every coordinate past them is zero.       *)
(***************************************************************************)
EXTENDS Integers, Sequences, FiniteSets, TLC

\* ------------------------------------------------------------------ bounds
MaxCand == 2        \* candidates of a ranking run
MaxRef == 3         \* reference (corpus) items of a ranking run
MaxTexts == 41      \* texts of one encode call in SpecEncode (three batches)

\* ------------------------------------------------------- program constants
DEFAULT_LOCAL_MODEL == "avsolatorio/GIST-small-Embedding-v0"
DEFAULT_API_MODEL == "text-embedding-3-small"
DEFAULT_API_BASE == "https://api.openai.com/v1"
batch_size == 20
FallbackDim == 1024
ScoreFactor == 10
SCALE == 1000

\* Python's None, kept apart from every str of the model by its spelling.
None == "<None>"
\* bool(v) of an Optional[str]: None and '' are falsy.
Truthy(v) == v # None /\ v # ""

\* ------------------------------------------------------------ environment
EnvVars == {"USE_EMBEDDING_API", "EMBEDDING_API_KEY", "EMBEDDING_API_BASE",
            "EMBEDDING_MODEL", "LOCAL_VECTORIZATION_MODEL"}

\* os.environ.get(key, default): env is a function from the set variables.
environ_get(env, key, default) == IF key \in DOMAIN env THEN env[key] ELSE default

\* str.lower() on the values the model gives USE_EMBEDDING_API.
lower(s) ==
  CASE s = "TRUE" -> "true"
    [] s = "No" -> "no"
    [] s = "Maybe" -> "maybe"
    [] OTHER -> s

\* str.rstrip('/') on the base URLs of the model.
rstrip_slash(s) ==
  CASE s = "https://proxy.example/v1/" -> "https://proxy.example/v1"
    [] s = "https://env.example/v1//" -> "https://env.example/v1"
    [] OTHER -> s

LogRec(level, what) == [level |-> level, what |-> what]

\* ------------------------------------------------------ provider classes
\* No provider object (the constructor threw, or none was asked for yet).
NoProvider == [kind |-> "none", model_name |-> None, api_key |-> None, base_url |-> None]

\* LocalEmbeddingProvider.__init__: SentenceTransformer(model_name) loads the
\* model or throws; loadable is the set of model names that load.
LocalEmbeddingProvider(model_name, loadable) ==
  IF model_name \in loadable
  THEN [exc |-> None,
        provider |-> [kind |-> "local", model_name |-> model_name,
                      api_key |-> None, base_url |-> None]]
  ELSE [exc |-> "ModelLoadError", provider |-> NoProvider]

\* APIEmbeddingProvider.__init__: ValueError without a key; base_url.rstrip
\* throws AttributeError when base_url is None.
APIEmbeddingProvider(api_key, model_name, base_url) ==
  IF ~Truthy(api_key) THEN [exc |-> "ValueError", provider |-> NoProvider]
  ELSE IF base_url = None THEN [exc |-> "AttributeError", provider |-> NoProvider]
  ELSE [exc |-> None,
        provider |-> [kind |-> "api", model_name |-> model_name,
                      api_key |-> api_key, base_url |-> rstrip_slash(base_url)]]

\* ---------------------------------------------------- provider selection
\* Lines 132-138: USE_EMBEDDING_API, lower-cased, overrides use_api when it is
\* one of the recognized spellings.
resolve_use_api(use_api, env) ==
  LET env_use_api == lower(environ_get(env, "USE_EMBEDDING_API", "")) IN
  IF env_use_api \in {"true", "1", "yes", "y"}
  THEN [value |-> TRUE, log |-> <<LogRec("info", "api_enabled_by_env")>>]
  ELSE IF env_use_api \in {"false", "0", "no", "n"}
  THEN [value |-> FALSE, log |-> <<LogRec("info", "api_disabled_by_env")>>]
  ELSE [value |-> use_api, log |-> <<>>]

\* Lines 141-144: EMBEDDING_API_KEY is read only when the remote provider is
\* selected and the caller gave no key.
resolve_api_key(use_api, api_key, env) ==
  IF use_api /\ ~Truthy(api_key)
  THEN LET k == environ_get(env, "EMBEDDING_API_KEY", None) IN
       [value |-> k,
        log |-> IF Truthy(k) THEN <<LogRec("info", "api_key_from_env")>> ELSE <<>>]
  ELSE [value |-> api_key, log |-> <<>>]

\* Faulty variant: the variable is read only when the caller gave no value.
resolve_str_if_missing(value, env, key, what) ==
  LET e == environ_get(env, key, None) IN
  IF ~Truthy(value) /\ Truthy(e) THEN [value |-> e, log |-> <<LogRec("info", what)>>]
  ELSE [value |-> value, log |-> <<>>]

\* Lines 147-162: a set, non-empty variable replaces the caller's value.
resolve_str(value, env, key, what) ==
  LET e == environ_get(env, key, None) IN
  IF Truthy(e) THEN [value |-> e, log |-> <<LogRec("info", what)>>]
  ELSE [value |-> value, log |-> <<>>]

\* Faulty variant: without a key the fallback is the default local model.
select_provider_default_model(use_api, api_key, api_base, api_model, local_model, loadable) ==
  LET local == LocalEmbeddingProvider(local_model, loadable)
      dflt == LocalEmbeddingProvider(DEFAULT_LOCAL_MODEL, loadable)
      initLocal == LogRec("info", "init_local")
  IN
  IF use_api
  THEN IF ~Truthy(api_key)
       THEN [exc |-> dflt.exc, provider |-> dflt.provider,
             log |-> <<LogRec("warning", "fallback_no_api_key"), initLocal>>]
       ELSE LET api == APIEmbeddingProvider(api_key, api_model, api_base) IN
            IF api.exc = None
            THEN [exc |-> None, provider |-> api.provider,
                  log |-> <<LogRec("info", "init_api"), LogRec("info", "init_api")>>]
            ELSE [exc |-> local.exc, provider |-> local.provider,
                  log |-> <<LogRec("info", "init_api"),
                            LogRec("error", "fallback_api_init_failed"), initLocal>>]
  ELSE [exc |-> local.exc, provider |-> local.provider,
        log |-> <<LogRec("info", "use_local"), initLocal>>]

\* Faulty variant: the fallback after a failed remote initialization is not logged.
select_provider_silent(use_api, api_key, api_base, api_model, local_model, loadable) ==
  LET local == LocalEmbeddingProvider(local_model, loadable)
      initLocal == LogRec("info", "init_local")
  IN
  IF use_api
  THEN IF ~Truthy(api_key)
       THEN [exc |-> local.exc, provider |-> local.provider,
             log |-> <<LogRec("warning", "fallback_no_api_key"), initLocal>>]
       ELSE LET api == APIEmbeddingProvider(api_key, api_model, api_base) IN
            IF api.exc = None
            THEN [exc |-> None, provider |-> api.provider,
                  log |-> <<LogRec("info", "init_api"), LogRec("info", "init_api")>>]
            ELSE [exc |-> local.exc, provider |-> local.provider,
                  log |-> <<LogRec("info", "init_api"), initLocal>>]
  ELSE [exc |-> local.exc, provider |-> local.provider,
        log |-> <<LogRec("info", "use_local"), initLocal>>]

\* Lines 164-176: the provider for the resolved options.  An exception of
\* LocalEmbeddingProvider leaves the function; one of APIEmbeddingProvider is
\* caught and answered with the local provider.
select_provider(use_api, api_key, api_base, api_model, local_model, loadable) ==
  LET local == LocalEmbeddingProvider(local_model, loadable)
      initLocal == LogRec("info", "init_local")
  IN
  IF use_api
  THEN IF ~Truthy(api_key)
       THEN [exc |-> local.exc, provider |-> local.provider,
             log |-> <<LogRec("warning", "fallback_no_api_key"), initLocal>>]
       ELSE LET api == APIEmbeddingProvider(api_key, api_model, api_base) IN
            IF api.exc = None
            THEN [exc |-> None, provider |-> api.provider,
                  log |-> <<LogRec("info", "init_api"), LogRec("info", "init_api")>>]
            ELSE [exc |-> local.exc, provider |-> local.provider,
                  log |-> <<LogRec("info", "init_api"),
                            LogRec("error", "fallback_api_init_failed"), initLocal>>]
  ELSE [exc |-> local.exc, provider |-> local.provider,
        log |-> <<LogRec("info", "use_local"), initLocal>>]

\* get_embedding_provider, lines 123-176.  args is the caller's
\* [use_api, api_key, api_base, api_model, local_model].  The answer carries
\* the resolved options beside the provider (or the exception) and the log.
get_embedding_provider(args, env, loadable) ==
  LET u == resolve_use_api(args.use_api, env)
      k == resolve_api_key(u.value, args.api_key, env)
      b == resolve_str(args.api_base, env, "EMBEDDING_API_BASE", "api_base_from_env")
      m == resolve_str(args.api_model, env, "EMBEDDING_MODEL", "api_model_from_env")
      l == resolve_str(args.local_model, env, "LOCAL_VECTORIZATION_MODEL",
                       "local_model_from_env")
      s == select_provider(u.value, k.value, b.value, m.value, l.value, loadable)
  IN [use_api |-> u.value, api_key |-> k.value, api_base |-> b.value,
      api_model |-> m.value, local_model |-> l.value,
      exc |-> s.exc, provider |-> s.provider,
      log |-> u.log \o k.log \o b.log \o m.log \o l.log \o s.log]

\* ------------------------------------------------------------- embeddings
Texts == {"a", "b", "c"}

\* What the embedding models make of a text: the leading coordinates of its
\* vector (every model of the run maps a text to the same direction).
Embed(text) ==
  CASE text = "a" -> <<3, 4>>
    [] text = "b" -> <<4, -3>>
    [] OTHER -> <<5, 0>>

\* The dimension of a model's vectors.
ModelDim(model_name) ==
  CASE model_name = DEFAULT_API_MODEL -> 1536
    [] model_name = "bge-m3" -> 1024
    [] OTHER -> 384

ZeroVec == <<0, 0>>

\* numpy arrays of embeddings: ndim 2 is shape (n, d) with rows the leading
\* coordinates of each row; ndim 1 is np.array([]), shape (0,).
Matrix(d, rows) == [ndim |-> 2, n |-> Len(rows), d |-> d, rows |-> rows]
EmptyArray == [ndim |-> 1, n |-> 0, d |-> 0, rows |-> <<>>]

\* np.array(list of vectors): an empty list gives the 1-D empty array.
np_array(d, rows) == IF rows = <<>> THEN EmptyArray ELSE Matrix(d, rows)

\* Faulty variant: the fallback filled with ones instead of zeros.
np_ones(n, d) == Matrix(d, [k \in 1..n |-> <<1, 1>>])

\* np.zeros((n, d)).
np_zeros(n, d) == Matrix(d, [k \in 1..n |-> ZeroVec])

RECURSIVE SumSeq(_)
SumSeq(s) == IF s = <<>> THEN 0 ELSE Head(s) + SumSeq(Tail(s))

Dot(u, v) == SumSeq([k \in 1..Len(u) |-> u[k] * v[k]])

\* The square root of a perfect square (np.linalg.norm of the model's rows).
Isqrt(x) == CHOOSE r \in 0..x : r * r <= x /\ x < (r + 1) * (r + 1)

\* Lines 28-36: a row divided by its norm, a zero norm replaced by 1e-10 (a
\* zero row divided by 1e-10 is the zero row).  Coordinates in 1/SCALE.
normalize_row(v) ==
  LET norm == Isqrt(Dot(v, v)) IN
  IF norm = 0 THEN [k \in 1..Len(v) |-> 0]
  ELSE [k \in 1..Len(v) |-> (v[k] * SCALE) \div norm]

\* EmbeddingProvider.similarity, lines 22-46: cosine similarity of every row
\* of embeddings1 with every row of embeddings2, in 1/SCALE.  norm(axis=1)
\* throws on a 1-D array, np.dot on rows of different dimension.
similarity(embeddings1, embeddings2) ==
  IF embeddings1.ndim # 2 \/ embeddings2.ndim # 2
  THEN [exc |-> "AxisError", n |-> 0, m |-> 0, val |-> <<>>]
  ELSE IF embeddings1.d # embeddings2.d
  THEN [exc |-> "ValueError", n |-> 0, m |-> 0, val |-> <<>>]
  ELSE [exc |-> None, n |-> embeddings1.n, m |-> embeddings2.n,
        val |-> [i \in 1..embeddings1.n |->
                  [j \in 1..embeddings2.n |->
                    Dot(normalize_row(embeddings1.rows[i]),
                        normalize_row(embeddings2.rows[j])) \div SCALE]]]

\* LocalEmbeddingProvider.similarity, lines 61-66: the model's own cosine
\* similarity, or the base implementation when the model has none.
local_similarity(has_native, embeddings1, embeddings2) ==
  IF has_native THEN similarity(embeddings1, embeddings2)
  ELSE similarity(embeddings1, embeddings2)

\* LocalEmbeddingProvider.encode, lines 57-59: one vector per text, in order.
local_encode(model_name, texts) ==
  np_array(ModelDim(model_name), [k \in 1..Len(texts) |-> Embed(texts[k])])

\* ------------------------------------------------------ recency weighting
\* np.log10(r) in 1/SCALE for the ranks of the model.
Log10Table == <<0, 301, 477, 602, 699, 778, 845, 903, 954, 1000>>
log10(r) == Log10Table[r]

\* Faulty variant: the weights left as they are after line 220, not divided
\* by their sum.
time_decay_weight_unnormalized(n) ==
  [r \in 1..n |-> (SCALE * SCALE) \div (SCALE + log10(r))]

\* Lines 220-221: 1 / (1 + log10(rank + 1)), divided by its sum; 1/SCALE.
time_decay_weight(n) ==
  LET raw == [r \in 1..n |-> (SCALE * SCALE) \div (SCALE + log10(r))]
      total == SumSeq(raw)
  IN [r \in 1..n |-> (raw[r] * SCALE) \div total]

\* Line 232: (sim * time_decay_weight).sum(axis=1) * 10.  numpy broadcasts
\* the weights over the rows when the last dimensions agree or one is 1.
compute_scores(sim, weight) ==
  LET n == Len(weight)
      cols == IF sim.m = 1 THEN n ELSE sim.m
  IN
  IF ~(sim.m = n \/ sim.m = 1 \/ n = 1)
  THEN [exc |-> "ValueError", val |-> <<>>]
  ELSE [exc |-> None,
        val |-> [i \in 1..sim.n |->
                  ScoreFactor *
                  SumSeq([j \in 1..cols |->
                           sim.val[i][IF sim.m = 1 THEN 1 ELSE j]
                           * weight[IF n = 1 THEN 1 ELSE j]])]]

\* ---------------------------------------------------------------- sorting
\* sorted(..., reverse=True) by key: the positions 1..Len(keys) in the order
\* of the result.  Python's sort is stable, also under reverse=True: of two
\* equal keys the earlier position stays first.
RECURSIVE argsort_from(_, _, _)
argsort_from(keys, k, acc) ==
  IF k > Len(keys) THEN acc
  ELSE LET p == Cardinality({i \in 1..Len(acc) : keys[acc[i]] >= keys[k]}) IN
       argsort_from(keys, k + 1,
                    SubSeq(acc, 1, p) \o <<k>> \o SubSeq(acc, p + 1, Len(acc)))

\* Faulty variant: an unstable descending sort (of two equal keys the later first).
RECURSIVE argsort_from_unstable(_, _, _)
argsort_from_unstable(keys, k, acc) ==
  IF k > Len(keys) THEN acc
  ELSE LET p == Cardinality({i \in 1..Len(acc) : keys[acc[i]] > keys[k]}) IN
       argsort_from_unstable(keys, k + 1,
                             SubSeq(acc, 1, p) \o <<k>> \o SubSeq(acc, p + 1, Len(acc)))

argsort_desc_unstable(keys) == argsort_from_unstable(keys, 1, <<>>)

argsort_desc(keys) == argsort_from(keys, 1, <<>>)

\* datetime.strptime(s, '%Y-%m-%dT%H:%M:%SZ'): the time of a well-formed
\* string (as a day number), ValueError for any other string.
strptime(s) ==
  CASE s = "2024-01-05T10:00:00Z" -> [exc |-> None, t |-> 5]
    [] s = "2024-03-09T08:30:00Z" -> [exc |-> None, t |-> 69]
    [] OTHER -> [exc |-> "ValueError", t |-> 0]

\* Line 217: the corpus newest first; strptime throws on a malformed date.
sort_corpus(c) ==
  LET parsed == [k \in 1..Len(c) |-> strptime(c[k].dateAdded)] IN
  IF \E k \in 1..Len(c) : parsed[k].exc # None
  THEN [exc |-> "ValueError", val |-> c]
  ELSE LET order == argsort_desc([k \in 1..Len(c) |-> parsed[k].t]) IN
       [exc |-> None, val |-> [k \in 1..Len(c) |-> c[order[k]]]]

\* ------------------------------------------------------------------ state
VARIABLES
  pc,                \* position in rerank_paper / encode
  args,              \* the caller's provider options
  env,               \* os.environ: variable name -> value
  loadable,          \* the local model names SentenceTransformer can load
  papers,            \* the ArxivPaper objects: id -> [summary, has_score, score]
  candidate_in,      \* the caller's candidate list (ids)
  candidate,         \* rerank_paper's local variable candidate
  corpus_in,         \* the caller's corpus
  corpus,            \* rerank_paper's local variable corpus
  sel,               \* what get_embedding_provider answered
  weight,            \* time_decay_weight
  corpus_feature, candidate_feature, sim, scores,
  k,                 \* loop position of the score loops
  enc,               \* the frame of APIEmbeddingProvider.encode
  calls,             \* the network calls issued, with their answers
  returned,          \* the value the last encode call returned
  log,               \* the log records emitted
  result,            \* the list rerank_paper returned
  failed,            \* the stage whose exception the handler caught
  nwrites,           \* id -> number of assignments to the paper's score
  opts,              \* main's options of the output stage
  fs,                \* the file system: directories and the feed file
  feed,              \* the feed generator render_rss returned
  saved,             \* what save_rss returned
  mail,              \* the outcome of send_email
  events             \* the output steps main has taken, in order

vars == <<pc, args, env, loadable, papers, candidate_in, candidate, corpus_in,
          corpus, sel, weight, corpus_feature, candidate_feature, sim, scores,
          k, enc, calls, returned, log, result, failed, nwrites,
          opts, fs, feed, saved, mail, events>>

NoSel == [use_api |-> FALSE, api_key |-> None, api_base |-> None, api_model |-> None,
          local_model |-> None, exc |-> None, provider |-> NoProvider, log |-> <<>>]
NoSim == [exc |-> None, n |-> 0, m |-> 0, val |-> <<>>]
NoEnc == [caller |-> "none", texts |-> <<>>, i |-> 0, all_embeddings |-> <<>>]

\* A fresh ArxivPaper: no score yet.
Paper(summary) == [summary |-> summary, has_score |-> FALSE, score |-> 0]

\* Sequences over S of length 0..n.
SeqUpTo(S, n) == UNION {[1..m -> S] : m \in 0..n}

\* ------------------------------------------------- inputs of a ranking run
CandTexts == {"a", "b"}
\* The corpus items of a run: an older and a newer well-formed date, two
\* items of the same date, and one whose date does not parse.
RefItem(text, date) == [abstractNote |-> text, dateAdded |-> date]
RefItems ==
  { RefItem("a", "2024-01-05T10:00:00Z"), RefItem("c", "2024-01-05T10:00:00Z"),
    RefItem("c", "2024-03-09T08:30:00Z"), RefItem("a", "2024-03-09 08:30") }

Args(use_api, api_key, api_base, api_model, local_model) ==
  [use_api |-> use_api, api_key |-> api_key, api_base |-> api_base,
   api_model |-> api_model, local_model |-> local_model]

NoEnv == [v \in {} |-> ""]

\* The configurations of a ranking run: [args, env, loadable].
RunConfigs ==
  { [args |-> Args(FALSE, None, DEFAULT_API_BASE, DEFAULT_API_MODEL, DEFAULT_LOCAL_MODEL),
     env |-> NoEnv, loadable |-> {DEFAULT_LOCAL_MODEL}],
    [args |-> Args(FALSE, None, DEFAULT_API_BASE, DEFAULT_API_MODEL, "my/model"),
     env |-> NoEnv, loadable |-> {DEFAULT_LOCAL_MODEL}],
    [args |-> Args(TRUE, "sk-caller", DEFAULT_API_BASE, DEFAULT_API_MODEL, DEFAULT_LOCAL_MODEL),
     env |-> NoEnv, loadable |-> {DEFAULT_LOCAL_MODEL}],
    [args |-> Args(FALSE, None, "https://proxy.example/v1/", "bge-m3", DEFAULT_LOCAL_MODEL),
     env |-> [v \in {"USE_EMBEDDING_API", "EMBEDDING_API_KEY"} |->
               IF v = "USE_EMBEDDING_API" THEN "TRUE" ELSE "sk-env"],
     loadable |-> {DEFAULT_LOCAL_MODEL}],
    [args |-> Args(TRUE, None, DEFAULT_API_BASE, DEFAULT_API_MODEL, DEFAULT_LOCAL_MODEL),
     env |-> NoEnv, loadable |-> {DEFAULT_LOCAL_MODEL}] }

\* main's output stage before it starts.
NoOpts == [generate_rss |-> FALSE, rss_output |-> None]
NoFile == [kind |-> "absent", entries |-> <<>>]
NoFs == [dirs |-> {}, file |-> NoFile]
NoFeed == [made |-> FALSE, entries |-> <<>>]
OutputIdle ==
  /\ opts = NoOpts /\ fs = NoFs /\ feed = NoFeed
  /\ saved = None /\ mail = "none" /\ events = <<>>

InitRun(cfg, cands, refs) ==
  /\ OutputIdle
  /\ pc = "start"
  /\ args = cfg.args /\ env = cfg.env /\ loadable = cfg.loadable
  /\ papers = [id \in 1..Len(cands) |-> Paper(cands[id])]
  /\ candidate_in = [id \in 1..Len(cands) |-> id]
  /\ candidate = [id \in 1..Len(cands) |-> id]
  /\ corpus_in = refs /\ corpus = refs
  /\ sel = NoSel /\ weight = <<>>
  /\ corpus_feature = EmptyArray /\ candidate_feature = EmptyArray
  /\ sim = NoSim /\ scores = <<>> /\ k = 0
  /\ enc = NoEnc /\ calls = <<>> /\ returned = EmptyArray
  /\ log = <<>> /\ result = <<>> /\ failed = "none"
  /\ nwrites = [id \in 1..Len(cands) |-> 0]

Init ==
  \E cfg \in RunConfigs, cands \in SeqUpTo(CandTexts, MaxCand),
     refs \in SeqUpTo(RefItems, MaxRef) :
    InitRun(cfg, cands, refs)

\* ----------------------------------------------------------- rerank_paper
\* What rerank_paper and the providers never assign: the caller's arguments
\* and the state of main's output stage.
output_stage == <<opts, fs, feed, saved, mail, events>>
inputs == <<args, env, loadable, candidate_in, corpus_in, output_stage>>
locals == <<weight, sim, scores>>

Min(a, b) == IF a <= b THEN a ELSE b

\* Lines 244-245: an exception of the try block reaches the handler, which
\* logs it and starts its loop over candidate.
Raise(stage) ==
  /\ pc' = "except"
  /\ failed' = stage
  /\ k' = 1

\* Lines 203-214: the provider for the caller's options.
GetProvider ==
  /\ pc = "start"
  /\ LET r == get_embedding_provider(args, env, loadable) IN
     /\ sel' = r
     /\ IF r.exc = None
        THEN /\ pc' = "sort_corpus"
             /\ log' = log \o r.log
             /\ UNCHANGED <<failed, k>>
        ELSE /\ Raise("provider")
             /\ log' = log \o r.log \o <<LogRec("error", "vectorization_failed")>>
  /\ UNCHANGED <<inputs, papers, candidate, corpus, locals, corpus_feature,
                 candidate_feature, enc, calls, returned, result, nwrites>>

\* Line 217.
SortCorpus ==
  /\ pc = "sort_corpus"
  /\ LET r == sort_corpus(corpus) IN
     IF r.exc = None
     THEN /\ corpus' = r.val
          /\ pc' = "weights"
          /\ UNCHANGED <<failed, k, log>>
     ELSE /\ Raise("timestamp")
          /\ log' = log \o <<LogRec("error", "vectorization_failed")>>
          /\ UNCHANGED corpus
  /\ UNCHANGED <<inputs, papers, candidate, sel, locals, corpus_feature,
                 candidate_feature, enc, calls, returned, result, nwrites>>

\* Lines 220-221.
ComputeWeights ==
  /\ pc = "weights"
  /\ weight' = time_decay_weight(Len(corpus))
  /\ pc' = "encode_corpus"
  /\ UNCHANGED <<inputs, papers, candidate, corpus, sel, sim, scores,
                 corpus_feature, candidate_feature, k, enc, calls, returned,
                 log, result, failed, nwrites>>

\* The texts of the encode call at pc: lines 225 and 228.
TextsAt(where) ==
  IF where = "encode_corpus"
  THEN [j \in 1..Len(corpus) |-> corpus[j].abstractNote]
  ELSE [j \in 1..Len(candidate) |-> papers[candidate[j]].summary]

\* encode has returned value to rerank_paper (or to the caller of a lone
\* encode call).
ReturnEncode(caller, value) ==
  /\ returned' = value
  /\ CASE caller = "corpus" ->
            /\ corpus_feature' = value
            /\ pc' = "encode_candidate"
            /\ UNCHANGED candidate_feature
       [] caller = "candidate" ->
            /\ candidate_feature' = value
            /\ pc' = "similarity"
            /\ UNCHANGED corpus_feature
       [] OTHER ->
            /\ pc' = "encode_done"
            /\ UNCHANGED <<corpus_feature, candidate_feature>>

CallerAt(where) == IF where = "encode_corpus" THEN "corpus" ELSE "candidate"

\* Lines 225/228 with the local provider: model.encode answers or throws.
LocalEncode ==
  /\ pc \in {"encode_corpus", "encode_candidate"}
  /\ sel.provider.kind = "local"
  /\ \E ok \in BOOLEAN :
       IF ok
       THEN /\ ReturnEncode(CallerAt(pc), local_encode(sel.provider.model_name, TextsAt(pc)))
            /\ UNCHANGED <<failed, k, log>>
       ELSE /\ Raise("encode")
            /\ log' = log \o <<LogRec("error", "vectorization_failed")>>
            /\ UNCHANGED <<corpus_feature, candidate_feature, returned>>
  /\ UNCHANGED <<inputs, papers, candidate, corpus, sel, locals, enc, calls,
                 result, nwrites>>

\* ---------------------------------------------- APIEmbeddingProvider.encode
\* Lines 93-94: encode is entered with its texts.
ApiEncodeBegin ==
  /\ pc \in {"encode_corpus", "encode_candidate"}
  /\ sel.provider.kind = "api"
  /\ enc' = [caller |-> CallerAt(pc), texts |-> TextsAt(pc), i |-> 0,
             all_embeddings |-> <<>>]
  /\ pc' = "api_encode"
  /\ UNCHANGED <<inputs, papers, candidate, corpus, sel, locals, corpus_feature,
                 candidate_feature, k, calls, returned, log, result, failed,
                 nwrites>>

\* Faulty variant: a slice one text too long, texts[i:i+batch_size+1].
batch_texts_overlong(texts, i) == SubSeq(texts, i + 1, Min(i + batch_size + 1, Len(texts)))

\* Line 97: texts[i:i+batch_size].
batch_texts(texts, i) == SubSeq(texts, i + 1, Min(i + batch_size, Len(texts)))

\* The "data" of a parseable answer to a batch: one embedding per text in
\* order, or (short) an answer that lacks the last of them.
ResponseData(batch, short) ==
  [j \in 1..(Len(batch) - (IF short THEN 1 ELSE 0)) |-> Embed(batch[j])]

CallRec(caller, batch, outcome, data) ==
  [caller |-> caller, texts |-> batch, outcome |-> outcome, data |-> data]

\* Lines 96-113: one pass of the loop whose call is answered and parsed.
ApiBatchOk ==
  /\ pc = "api_encode"
  /\ enc.i < Len(enc.texts)
  /\ \E short \in BOOLEAN :
       LET batch == batch_texts(enc.texts, enc.i)
           data == ResponseData(batch, short)
       IN /\ enc' = [enc EXCEPT !.all_embeddings = @ \o data,
                                !.i = @ + batch_size]
          /\ calls' = Append(calls, CallRec(enc.caller, batch,
                                            IF short THEN "short" ELSE "ok", data))
  /\ UNCHANGED <<pc, inputs, papers, candidate, corpus, sel, locals,
                 corpus_feature, candidate_feature, k, returned, log, result,
                 failed, nwrites>>

\* Faulty variant: zeros for the texts of the failed batch only.
ApiBatchFail_BatchOnly ==
  /\ pc = "api_encode"
  /\ enc.i < Len(enc.texts)
  /\ calls' = Append(calls, CallRec(enc.caller, batch_texts(enc.texts, enc.i),
                                    "fail", <<>>))
  /\ log' = Append(log, LogRec("error", "api_embeddings_failed"))
  /\ ReturnEncode(enc.caller,
                  np_zeros(Len(batch_texts(enc.texts, enc.i)), FallbackDim))
  /\ UNCHANGED <<inputs, papers, candidate, corpus, sel, locals, k, enc,
                 result, failed, nwrites>>

\* Faulty variant: the failed batch is filled with zeros and the loop goes on.
ApiBatchFail_Continue ==
  /\ pc = "api_encode"
  /\ enc.i < Len(enc.texts)
  /\ calls' = Append(calls, CallRec(enc.caller, batch_texts(enc.texts, enc.i),
                                    "fail", <<>>))
  /\ log' = Append(log, LogRec("error", "api_embeddings_failed"))
  /\ enc' = [enc EXCEPT
               !.all_embeddings =
                  @ \o [j \in 1..Len(batch_texts(enc.texts, enc.i)) |-> ZeroVec],
               !.i = @ + batch_size]
  /\ UNCHANGED <<pc, inputs, papers, candidate, corpus, sel, locals,
                 corpus_feature, candidate_feature, k, returned, result,
                 failed, nwrites>>

\* Lines 115-118: the call of a pass fails (network error, HTTP error status
\* or an answer that does not parse); encode logs it and returns zeros for
\* all its texts.
ApiBatchFail ==
  /\ pc = "api_encode"
  /\ enc.i < Len(enc.texts)
  /\ calls' = Append(calls, CallRec(enc.caller, batch_texts(enc.texts, enc.i),
                                    "fail", <<>>))
  /\ log' = Append(log, LogRec("error", "api_embeddings_failed"))
  /\ ReturnEncode(enc.caller, np_zeros(Len(enc.texts), FallbackDim))
  /\ UNCHANGED <<inputs, papers, candidate, corpus, sel, locals, k, enc,
                 result, failed, nwrites>>

\* Line 120: the loop is over; the collected embeddings are returned.
ApiEncodeReturn ==
  /\ pc = "api_encode"
  /\ enc.i >= Len(enc.texts)
  /\ ReturnEncode(enc.caller,
                  np_array(ModelDim(sel.provider.model_name), enc.all_embeddings))
  /\ UNCHANGED <<inputs, papers, candidate, corpus, sel, locals, k, enc, calls,
                 log, result, failed, nwrites>>

\* -------------------------------------------------- scores and the ranking
\* Line 231.
Similarity ==
  /\ pc = "similarity"
  /\ \E has_native \in BOOLEAN :
       LET r == IF sel.provider.kind = "local"
                THEN local_similarity(has_native, candidate_feature, corpus_feature)
                ELSE similarity(candidate_feature, corpus_feature)
       IN IF r.exc = None
          THEN /\ sim' = r
               /\ pc' = "scores"
               /\ UNCHANGED <<failed, k, log>>
          ELSE /\ Raise("similarity")
               /\ log' = log \o <<LogRec("error", "vectorization_failed")>>
               /\ UNCHANGED sim
  /\ UNCHANGED <<inputs, papers, candidate, corpus, sel, weight, scores,
                 corpus_feature, candidate_feature, enc, calls, returned,
                 result, nwrites>>

\* Line 232.
ComputeScores ==
  /\ pc = "scores"
  /\ LET r == compute_scores(sim, weight) IN
     IF r.exc = None
     THEN /\ scores' = r.val
          /\ pc' = "assign"
          /\ k' = 1
          /\ UNCHANGED <<failed, log>>
     ELSE /\ Raise("scores")
          /\ log' = log \o <<LogRec("error", "vectorization_failed")>>
          /\ UNCHANGED scores
  /\ UNCHANGED <<inputs, papers, candidate, corpus, sel, weight, sim,
                 corpus_feature, candidate_feature, enc, calls, returned,
                 result, nwrites>>

\* c.score = value.
SetScore(id, value) ==
  /\ papers' = [papers EXCEPT ![id] = [@ EXCEPT !.has_score = TRUE, !.score = value]]
  /\ nwrites' = [nwrites EXCEPT ![id] = @ + 1]

\* Lines 235-237: one pass of the loop over zip(scores, candidate).
AssignScore ==
  /\ pc = "assign"
  /\ k <= Min(Len(scores), Len(candidate))
  /\ SetScore(candidate[k], scores[k])
  /\ k' = k + 1
  /\ UNCHANGED <<pc, inputs, candidate, corpus, sel, locals, corpus_feature,
                 candidate_feature, enc, calls, returned, log, result, failed>>

\* Faulty variant: a sort that takes an unset score for the lowest instead of
\* throwing.
sorted_candidates_lenient(cand, ps) ==
  LET order == argsort_desc([j \in 1..Len(cand) |->
                              IF ps[cand[j]].has_score THEN ps[cand[j]].score
                              ELSE -1 * ScoreFactor * SCALE * SCALE])
  IN [exc |-> None, val |-> [j \in 1..Len(cand) |-> cand[order[j]]]]

\* sorted(candidate, key=score, reverse=True): comparing the scores of two
\* or more papers throws when one of them has none.
sorted_candidates(cand, ps) ==
  IF Len(cand) >= 2 /\ \E j \in 1..Len(cand) : ~ps[cand[j]].has_score
  THEN [exc |-> "TypeError", val |-> cand]
  ELSE LET order == argsort_desc([j \in 1..Len(cand) |-> ps[cand[j]].score]) IN
       [exc |-> None, val |-> [j \in 1..Len(cand) |-> cand[order[j]]]]

\* Lines 240-242: the loop is over; sort and return.
SortAndReturn ==
  /\ pc = "assign"
  /\ k > Min(Len(scores), Len(candidate))
  /\ LET r == sorted_candidates(candidate, papers) IN
     IF r.exc = None
     THEN /\ candidate' = r.val
          /\ result' = r.val
          /\ pc' = "done"
          /\ UNCHANGED <<failed, k, log>>
     ELSE /\ Raise("sort")
          /\ log' = log \o <<LogRec("error", "vectorization_failed")>>
          /\ UNCHANGED <<candidate, result>>
  /\ UNCHANGED <<inputs, papers, corpus, sel, locals, corpus_feature,
                 candidate_feature, enc, calls, returned, nwrites>>

\* Faulty variant: the handler's loop leaves the first candidate alone.
ZeroScore_SkipsFirst ==
  /\ pc = "except"
  /\ k <= Len(candidate)
  /\ IF k = 1 THEN UNCHANGED <<papers, nwrites>> ELSE SetScore(candidate[k], 0)
  /\ k' = k + 1
  /\ UNCHANGED <<pc, inputs, candidate, corpus, sel, locals, corpus_feature,
                 candidate_feature, enc, calls, returned, log, result, failed>>

\* Lines 247-248: one pass of the handler's loop.
ZeroScore ==
  /\ pc = "except"
  /\ k <= Len(candidate)
  /\ SetScore(candidate[k], 0)
  /\ k' = k + 1
  /\ UNCHANGED <<pc, inputs, candidate, corpus, sel, locals, corpus_feature,
                 candidate_feature, enc, calls, returned, log, result, failed>>

\* Line 249.
ExceptReturn ==
  /\ pc = "except"
  /\ k > Len(candidate)
  /\ result' = candidate
  /\ pc' = "done"
  /\ UNCHANGED <<inputs, papers, candidate, corpus, sel, locals, corpus_feature,
                 candidate_feature, k, enc, calls, returned, log, failed, nwrites>>

Next ==
  \/ GetProvider \/ SortCorpus \/ ComputeWeights
  \/ LocalEncode \/ ApiEncodeBegin \/ ApiBatchOk \/ ApiBatchFail \/ ApiEncodeReturn
  \/ Similarity \/ ComputeScores \/ AssignScore \/ SortAndReturn
  \/ ZeroScore \/ ExceptReturn

Spec == Init /\ [][Next]_vars

\* ------------------------------------------ a lone call of the remote encode
\* The texts of a lone encode call: n texts cycling through Texts from off.
CycleText(j) == CASE j % 3 = 0 -> "a" [] j % 3 = 1 -> "b" [] OTHER -> "c"
LoneTexts(n, off) == [j \in 1..n |-> CycleText(j + off)]

InitEncode ==
  \E n \in 0..MaxTexts, off \in 0..2, model \in {DEFAULT_API_MODEL, "bge-m3"} :
    /\ pc = "api_encode"
    /\ args = Args(TRUE, "sk-caller", DEFAULT_API_BASE, model, DEFAULT_LOCAL_MODEL)
    /\ env = NoEnv /\ loadable = {}
    /\ papers = <<>> /\ candidate_in = <<>> /\ candidate = <<>>
    /\ corpus_in = <<>> /\ corpus = <<>>
    /\ sel = get_embedding_provider(args, env, loadable)
    /\ weight = <<>>
    /\ corpus_feature = EmptyArray /\ candidate_feature = EmptyArray
    /\ sim = NoSim /\ scores = <<>> /\ k = 0
    /\ enc = [caller |-> "alone", texts |-> LoneTexts(n, off), i |-> 0,
              all_embeddings |-> <<>>]
    /\ calls = <<>> /\ returned = EmptyArray
    /\ log = <<>> /\ result = <<>> /\ failed = "none"
    /\ nwrites = <<>>
    /\ OutputIdle

NextEncode == ApiBatchOk \/ ApiBatchFail \/ ApiEncodeReturn

SpecEncode == InitEncode /\ [][NextEncode]_vars

\* ------------------------------------- a lone call of get_embedding_provider
UseApiValues == {"TRUE", "1", "No", "Maybe", ""}
ApiKeyValues == {"sk-env", ""}

\* os.environ with the five variables set to u, ek, eb, em, el; None: unset.
EnvOf5(u, ek, eb, em, el) ==
  LET val == [v \in EnvVars |->
                CASE v = "USE_EMBEDDING_API" -> u
                  [] v = "EMBEDDING_API_KEY" -> ek
                  [] v = "EMBEDDING_API_BASE" -> eb
                  [] v = "EMBEDDING_MODEL" -> em
                  [] OTHER -> el]
  IN [v \in {x \in EnvVars : val[x] # None} |-> val[v]]

InitProvider ==
  \E use_api \in BOOLEAN, api_key \in {None, "", "sk-caller"},
     api_base \in {DEFAULT_API_BASE, "https://proxy.example/v1/", None},
     local_model \in {DEFAULT_LOCAL_MODEL, "my/model"},
     u \in UseApiValues \cup {None}, ek \in ApiKeyValues \cup {None},
     eb \in {"https://env.example/v1//", None}, em \in {"bge-m3", None},
     el \in {"env/model", None},
     ld \in {{DEFAULT_LOCAL_MODEL, "my/model", "env/model"}, {DEFAULT_LOCAL_MODEL}, {}} :
    /\ pc = "provider_call"
    /\ args = Args(use_api, api_key, api_base, DEFAULT_API_MODEL, local_model)
    /\ env = EnvOf5(u, ek, eb, em, el)
    /\ loadable = ld
    /\ papers = <<>> /\ candidate_in = <<>> /\ candidate = <<>>
    /\ corpus_in = <<>> /\ corpus = <<>>
    /\ sel = NoSel /\ weight = <<>>
    /\ corpus_feature = EmptyArray /\ candidate_feature = EmptyArray
    /\ sim = NoSim /\ scores = <<>> /\ k = 0
    /\ enc = NoEnc /\ calls = <<>> /\ returned = EmptyArray
    /\ log = <<>> /\ result = <<>> /\ failed = "none"
    /\ nwrites = <<>>
    /\ OutputIdle

\* get_embedding_provider called by itself: it returns or it throws.
CallGetProvider ==
  /\ pc = "provider_call"
  /\ LET r == get_embedding_provider(args, env, loadable) IN
     /\ sel' = r
     /\ log' = r.log
     /\ pc' = IF r.exc = None THEN "provider_returned" ELSE "provider_raised"
  /\ UNCHANGED <<inputs, papers, candidate, corpus, locals, corpus_feature,
                 candidate_feature, k, enc, calls, returned, result, failed,
                 nwrites>>

NextProvider == CallGetProvider

SpecProvider == InitProvider /\ [][NextProvider]_vars

\* ------------------------------------------------ the output stage of main
\* os.path.dirname of the feed paths of the model.
dirname(path) == IF path = "public/index.xml" THEN "public" ELSE ""

\* construct_rss.render_rss, lines 99-109, with add_paper_to_feed: one entry
\* per paper in the order given, carrying the paper's score when it has one.
render_rss(ps, ranked) ==
  [made |-> TRUE,
   entries |-> [j \in 1..Len(ranked) |->
                 [id |-> ranked[j],
                  has_relevance |-> ps[ranked[j]].has_score,
                  relevance |-> ps[ranked[j]].score]]]

\* The Atom document save_rss writes for a feed: its entries, each with the
\* zotero:relevanceScore element when the entry carries a score.
AtomFile(fg) == [kind |-> "atom", entries |-> fg.entries]

\* The calls of save_rss that the system or the feed library can fail.
SaveFaults == {"none", "makedirs", "atom_str", "open", "write"}

\* construct_rss.save_rss, lines 111-161: make the directory, build the
\* document, write it; True, or False when anything threw.  fault is the
\* call that fails; os.makedirs('') always throws; open(..., 'w') truncates
\* the file before a failing write.
save_rss(feed_generator, output_path, fsys, fault) ==
  LET d == dirname(output_path)
      made == [fsys EXCEPT !.dirs = @ \cup {d}]
      bad(f) == [ret |-> "False", fs |-> f,
                 log |-> <<LogRec("error", "rss_save_failed")>>]
  IN
  IF d = "" \/ fault = "makedirs" THEN bad(fsys)
  ELSE IF fault \in {"atom_str", "open"} THEN bad(made)
  ELSE IF fault = "write"
  THEN bad([made EXCEPT !.file = [kind |-> "partial", entries |-> <<>>]])
  ELSE [ret |-> "True",
        fs |-> [made EXCEPT !.file = AtomFile(feed_generator)],
        log |-> <<LogRec("info", "rss_saved")>>]

\* main.py line 285: if args.generate_rss.
GenerateRss ==
  /\ pc = "main_rss"
  /\ IF opts.generate_rss
     THEN /\ pc' = "main_render_rss"
          /\ log' = Append(log, LogRec("info", "generating_rss"))
     ELSE /\ pc' = "main_email"
          /\ UNCHANGED log
  /\ UNCHANGED <<args, env, loadable, candidate_in, corpus_in, papers,
                 candidate, corpus, sel, locals, corpus_feature,
                 candidate_feature, k, enc, calls, returned, result, failed,
                 nwrites, output_stage>>

\* main.py lines 287-294: the feed of the ranked papers.  The call is outside
\* any try block: an exception of render_rss leaves main.
RenderRss ==
  /\ pc = "main_render_rss"
  /\ \E raises \in BOOLEAN :
       IF raises
       THEN /\ pc' = "main_raised"
            /\ UNCHANGED <<feed, events>>
       ELSE /\ feed' = render_rss(papers, result)
            /\ events' = Append(events, "render_rss")
            /\ pc' = "main_save_rss"
  /\ UNCHANGED <<args, env, loadable, candidate_in, corpus_in, papers,
                 candidate, corpus, sel, locals, corpus_feature,
                 candidate_feature, k, enc, calls, returned, log, result,
                 failed, nwrites, opts, fs, saved, mail>>

\* main.py lines 295-299: save the feed and log the outcome.
SaveRss ==
  /\ pc = "main_save_rss"
  /\ \E fault \in SaveFaults :
       LET r == save_rss(feed, opts.rss_output, fs, fault) IN
       /\ fs' = r.fs
       /\ saved' = r.ret
       /\ log' = log \o r.log \o
                 (IF r.ret = "True"
                  THEN <<LogRec("success", "rss_generated"), LogRec("info", "rss_url")>>
                  ELSE <<LogRec("error", "rss_failed")>>)
  /\ events' = Append(events, "save_rss")
  /\ pc' = "main_email"
  /\ UNCHANGED <<args, env, loadable, candidate_in, corpus_in, papers,
                 candidate, corpus, sel, locals, corpus_feature,
                 candidate_feature, k, enc, calls, returned, result, failed,
                 nwrites, opts, feed, mail>>

\* Faulty variant: send_email called outside the try block.
SendEmail_Unguarded ==
  /\ pc = "main_email"
  /\ \E delivered \in BOOLEAN :
       /\ mail' = IF delivered THEN "sent" ELSE "failed"
       /\ pc' = IF delivered THEN "main_done" ELSE "main_raised"
       /\ log' = log \o <<LogRec("info", "sending_email")>> \o
                 (IF delivered THEN <<LogRec("success", "email_sent")>> ELSE <<>>)
  /\ events' = Append(events, "send_email")
  /\ UNCHANGED <<args, env, loadable, candidate_in, corpus_in, papers,
                 candidate, corpus, sel, locals, corpus_feature,
                 candidate_feature, k, enc, calls, returned, result, failed,
                 nwrites, opts, fs, feed, saved>>

\* main.py lines 302-308: send the email; an exception of send_email is
\* logged and the run ends normally.
SendEmail ==
  /\ pc = "main_email"
  /\ \E delivered \in BOOLEAN :
       /\ mail' = IF delivered THEN "sent" ELSE "failed"
       /\ log' = log \o <<LogRec("info", "sending_email")>> \o
                 (IF delivered
                  THEN <<LogRec("success", "email_sent")>>
                  ELSE <<LogRec("error", "email_failed"),
                         LogRec("info", "email_failed_others_completed")>>)
  /\ events' = Append(events, "send_email")
  /\ pc' = "main_done"
  /\ UNCHANGED <<args, env, loadable, candidate_in, corpus_in, papers,
                 candidate, corpus, sel, locals, corpus_feature,
                 candidate_feature, k, enc, calls, returned, result, failed,
                 nwrites, opts, fs, feed, saved>>

\* The scores of the ranked papers main hands to the output stage.
RankedScores == {0, 6 * SCALE * SCALE}
RssOutputs == {"public/index.xml", "index.xml"}
OldFile == [kind |-> "old", entries |-> <<>>]

\* main at line 284: papers ranked (or empty, with send_empty), html rendered.
InitMain ==
  \E ranked \in SeqUpTo(RankedScores, MaxCand), g \in BOOLEAN,
     out \in RssOutputs, dirs \in SUBSET {"public"}, old \in {NoFile, OldFile} :
    /\ pc = "main_rss"
    /\ args = Args(FALSE, None, DEFAULT_API_BASE, DEFAULT_API_MODEL, DEFAULT_LOCAL_MODEL)
    /\ env = NoEnv /\ loadable = {}
    /\ papers = [id \in 1..Len(ranked) |->
                  [summary |-> "a", has_score |-> TRUE, score |-> ranked[id]]]
    /\ candidate_in = <<>> /\ candidate = <<>>
    /\ corpus_in = <<>> /\ corpus = <<>>
    /\ sel = NoSel /\ weight = <<>>
    /\ corpus_feature = EmptyArray /\ candidate_feature = EmptyArray
    /\ sim = NoSim /\ scores = <<>> /\ k = 0
    /\ enc = NoEnc /\ calls = <<>> /\ returned = EmptyArray
    /\ log = <<>> /\ result = [id \in 1..Len(ranked) |-> id] /\ failed = "none"
    /\ nwrites = [id \in 1..Len(ranked) |-> 1]
    /\ opts = [generate_rss |-> g, rss_output |-> out]
    /\ fs = [dirs |-> dirs, file |-> IF dirs = {} THEN NoFile ELSE old]
    /\ feed = NoFeed /\ saved = None /\ mail = "none" /\ events = <<>>

NextMain == GenerateRss \/ RenderRss \/ SaveRss \/ SendEmail

SpecMain == InitMain /\ [][NextMain]_vars

\* ================================================================= claims
Returned == pc = "done"
ScoreOf(id) == papers[id].score
AllScoresZero == \A id \in DOMAIN papers : papers[id].has_score /\ papers[id].score = 0
MalformedAt(j) == strptime(corpus_in[j].dateAdded).exc # None
HasMalformedDate == \E j \in 1..Len(corpus_in) : MalformedAt(j)

\* C1: a failure while obtaining the provider, encoding, computing the
\* similarity or computing the scores never leaves rerank_paper: the handler
\* takes it, and the call returns the candidates in their input order, every
\* score exactly 0.0.
C1_FailureReturnsZeroScores ==
  failed \in {"provider", "encode", "similarity", "scores"} =>
    /\ pc \in {"except", "done"}
    /\ Returned => (result = candidate_in /\ AllScoresZero)

C1_Witness ==
  /\ Returned
  /\ failed = "scores"
  /\ Len(candidate_in) = 2
  /\ papers[1].summary # papers[2].summary

\* C2: with a malformed added-at timestamp in the reference items the ranking
\* call raises to its caller; it never returns a (zero-scored) result.
C2_MalformedTimestampRaises ==
  (HasMalformedDate /\ sel.exc = None) => ~Returned

\* C3: on the success path the result is ordered by score descending, and
\* candidates of equal score keep their input order (ids are input positions).
C3_SortedDescendingStable ==
  (Returned /\ failed = "none") =>
    \A i, j \in 1..Len(result) :
      i < j => \/ ScoreOf(result[i]) > ScoreOf(result[j])
               \/ (ScoreOf(result[i]) = ScoreOf(result[j]) /\ result[i] < result[j])

C3_Witness ==
  /\ Returned /\ failed = "none"
  /\ Len(result) = 2
  /\ ScoreOf(1) = ScoreOf(2) /\ ScoreOf(1) > 0

SomeCallFailed == \E c \in 1..Len(calls) : calls[c].outcome = "fail"

\* C4: when a batch call of the remote encode fails, encode returns (it does
\* not raise) one all-zero vector of dimension 1024 for every text of the
\* encode call.
C4_FailedBatchGivesZeros ==
  SomeCallFailed =>
    /\ pc = "encode_done"
    /\ returned.ndim = 2
    /\ returned.n = Len(enc.texts)
    /\ returned.d = 1024
    /\ \A j \in 1..returned.n : \A c \in 1..Len(returned.rows[j]) : returned.rows[j][c] = 0

C4_Witness ==
  /\ pc = "encode_done"
  /\ Len(enc.texts) > 2 * batch_size
  /\ Len(calls) = 2
  /\ calls[1].outcome = "ok" /\ calls[2].outcome = "fail"

\* The position in enc.texts of text j of the b-th batch.
PosOf(b, j) == (b - 1) * batch_size + j

\* C5 as claimed: after a failed batch, the texts of the batches whose call
\* succeeded keep the embeddings the API returned for them.
C5_FailureLocalToBatch ==
  (pc = "encode_done" /\ SomeCallFailed) =>
    \A b \in 1..Len(calls) :
      calls[b].outcome = "ok" =>
        \A j \in 1..Len(calls[b].data) :
          /\ PosOf(b, j) <= returned.n
          /\ returned.rows[PosOf(b, j)] = calls[b].data[j]

\* C5 as amended: a failed batch ends the encode call: the failed call is the
\* last one issued, and every text of the call, those of the batches answered
\* before included, gets a zero vector in place of what the API returned.
C5_FailureLocalToCall ==
  (pc = "encode_done" /\ SomeCallFailed) =>
    /\ calls[Len(calls)].outcome = "fail"
    /\ \A b \in 1..(Len(calls) - 1) :
         /\ calls[b].outcome # "fail"
         /\ \A j \in 1..Len(calls[b].data) :
              /\ returned.rows[PosOf(b, j)] = ZeroVec
              /\ returned.rows[PosOf(b, j)] # calls[b].data[j]
    /\ \A j \in 1..Len(enc.texts) : returned.rows[j] = ZeroVec

C5_Witness ==
  /\ pc = "encode_done"
  /\ Len(enc.texts) = 2 * batch_size + 1
  /\ Len(calls) = 2
  /\ calls[1].outcome = "ok" /\ Len(calls[1].data) = batch_size
  /\ calls[2].outcome = "fail"

\* The b-th of the consecutive groups of at most 20 texts.
GroupOf(texts, b) ==
  SubSeq(texts, (b - 1) * 20 + 1, Min(b * 20, Len(texts)))
NumGroups(n) == (n + 19) \div 20

\* What C6 says of a finished encode call: one call per group of at most 20
\* consecutive texts, in input order, and n vectors, the k-th the embedding
\* of the k-th text.
OneCallPerGroupInOrder ==
  /\ Len(calls) = NumGroups(Len(enc.texts))
  /\ \A b \in 1..Len(calls) :
       /\ Len(calls[b].texts) <= 20
       /\ calls[b].texts = GroupOf(enc.texts, b)
  /\ returned.n = Len(enc.texts)
  /\ \A j \in 1..Len(enc.texts) : returned.rows[j] = Embed(enc.texts[j])

C7_AllBatchesFail ==
  (/\ Returned
   /\ sel.provider.kind = "api"
   /\ \A c \in 1..Len(calls) : calls[c].outcome = "fail") =>
    /\ result = candidate_in
    /\ AllScoresZero

C7_Witness ==
  /\ Returned
  /\ sel.provider.kind = "api"
  /\ Len(calls) = 2
  /\ calls[1].outcome = "fail" /\ calls[2].outcome = "fail"
  /\ failed = "none"
  /\ Len(candidate_in) = 2
  /\ papers[1].summary # papers[2].summary
  /\ Len(corpus_in) >= 2

ProviderCalled == pc \in {"provider_returned", "provider_raised"}
EnvKey == environ_get(env, "EMBEDDING_API_KEY", None)
EnvBase == environ_get(env, "EMBEDDING_API_BASE", None)
EnvModel == environ_get(env, "EMBEDDING_MODEL", None)
EnvLocal == environ_get(env, "LOCAL_VECTORIZATION_MODEL", None)
EnvUse == environ_get(env, "USE_EMBEDDING_API", None)
EnvSaysUseApi == EnvUse \in {"TRUE", "1"}
EnvSaysNoApi == EnvUse = "No"

\* The environment without USE_EMBEDDING_API.
EnvWithoutUse == [v \in (DOMAIN env) \ {"USE_EMBEDDING_API"} |-> env[v]]

\* The call with the local provider selected by the caller: same options,
\* use_api = False, under environment e.
LocalSelected(e) == get_embedding_provider([args EXCEPT !.use_api = FALSE], e, loadable)

\* C8: the remote provider selected, no key from the caller and none in the
\* environment: the call answers what selecting the local provider with the
\* same local model name answers, the local provider of that model (or its
\* initialization error).
C8_NoKeyIsLocal ==
  (ProviderCalled /\ sel.use_api /\ ~Truthy(args.api_key) /\ ~Truthy(EnvKey)) =>
    /\ sel.provider = LocalSelected(env).provider
    /\ sel.exc = LocalSelected(env).exc
    /\ sel.provider = LocalSelected(EnvWithoutUse).provider
    /\ sel.exc = LocalSelected(EnvWithoutUse).exc
    /\ LocalSelected(EnvWithoutUse).use_api = FALSE
    /\ pc = "provider_returned" =>
         (sel.provider.kind = "local" /\ sel.provider.model_name = sel.local_model)

C8_Witness ==
  /\ pc = "provider_returned"
  /\ args.use_api /\ sel.use_api
  /\ ~Truthy(args.api_key) /\ ~Truthy(EnvKey)
  /\ sel.provider.kind = "local"
  /\ sel.provider.model_name = "my/model"

\* The initialization the selection chose first threw: the local model does
\* not load, or the remote constructor is handed no base URL.
LocalChosen == ~sel.use_api
RemoteInitThrew == sel.use_api /\ Truthy(sel.api_key) /\ sel.api_base = None
LocalInitThrew == sel.local_model \notin loadable
FallbackTaken == sel.use_api /\ (~Truthy(sel.api_key) \/ RemoteInitThrew)
FallbackLogged ==
  \E r \in 1..Len(log) :
    /\ log[r].level \in {"warning", "error"}
    /\ log[r].what \in {"fallback_no_api_key", "fallback_api_init_failed"}

\* C9 as claimed: whichever provider was chosen, when its initialization
\* throws the call returns the local provider, and every fallback is logged.
C9_InitFailureFallsBack ==
  ProviderCalled =>
    /\ ((LocalChosen /\ LocalInitThrew) \/ RemoteInitThrew) =>
         (pc = "provider_returned" /\ sel.provider.kind = "local")
    /\ FallbackTaken => FallbackLogged

\* C9 as amended: when the remote initialization throws, the call logs it
\* and answers with the local provider of the local model; an exception of
\* the local initialization, chosen or fallen back to, leaves the call; every
\* fallback is logged.
C9_RemoteInitFailureFallsBack ==
  ProviderCalled =>
    /\ (RemoteInitThrew /\ ~LocalInitThrew) =>
         /\ pc = "provider_returned"
         /\ sel.provider.kind = "local"
         /\ sel.provider.model_name = sel.local_model
    /\ ((LocalChosen \/ FallbackTaken) /\ LocalInitThrew) => pc = "provider_raised"
    /\ FallbackTaken => FallbackLogged

C9_Witness ==
  /\ pc = "provider_returned"
  /\ RemoteInitThrew
  /\ sel.provider.kind = "local"
  /\ sel.provider.model_name = "env/model"

\* What the environment decides of the four options it overrides.
EnvWinsUseBaseModels ==
  /\ EnvSaysUseApi => sel.use_api
  /\ EnvSaysNoApi => ~sel.use_api
  /\ Truthy(EnvBase) =>
       /\ sel.api_base = EnvBase
       /\ sel.provider.kind = "api" => sel.provider.base_url = "https://env.example/v1"
  /\ Truthy(EnvModel) =>
       /\ sel.api_model = EnvModel
       /\ sel.provider.kind = "api" => sel.provider.model_name = EnvModel
  /\ Truthy(EnvLocal) =>
       /\ sel.local_model = EnvLocal
       /\ sel.provider.kind = "local" => sel.provider.model_name = EnvLocal

C11_ScoreWrittenOnce ==
  \A id \in DOMAIN nwrites : nwrites[id] <= 1


\* ------------------------------------------------------------------- C12
Succeeded == Returned /\ failed = "none"

\* c is an arrangement of d, item for item.
IsPermutationOf(c, d) ==
  /\ Len(c) = Len(d)
  /\ \E f \in [1..Len(c) -> 1..Len(c)] :
       /\ \A x, y \in 1..Len(c) : x # y => f[x] # f[y]
       /\ \A x \in 1..Len(c) : c[x] = d[f[x]]

\* c lists the reference items newest first.
RecencyDescending(c) ==
  \A x, y \in 1..Len(c) :
    x < y => strptime(c[x].dateAdded).t >= strptime(c[y].dateAdded).t

\* The recency weight of rank r among n reference items, 1/SCALE.
RankWeight(n, r) ==
  LET raw == [q \in 1..n |-> (SCALE * SCALE) \div (SCALE + log10(q))]
  IN (raw[r] * SCALE) \div SumSeq(raw)

\* The cosine similarity of the vectors the provider returned for the i-th
\* input candidate and for the j-th most recently added reference item.
FeatureSimilarity(i, j) ==
  Dot(normalize_row(candidate_feature.rows[i]),
      normalize_row(corpus_feature.rows[j])) \div SCALE

\* C12: on the success path the reference items are ranked newest first, the
\* provider's vectors give a similarity for every pair (candidate i,
\* reference item j), and the score of the i-th input candidate is 10 times
\* the sum over j of similarity(i, j) times the weight of rank j.
C12_ScoreIsWeightedSimilarity ==
  Succeeded =>
    /\ IsPermutationOf(corpus, corpus_in) /\ RecencyDescending(corpus)
    /\ candidate_feature.n = Len(candidate_in)
    /\ corpus_feature.n = Len(corpus)
    /\ \A i \in 1..Len(candidate_in) :
         /\ papers[candidate_in[i]].has_score
         /\ ScoreOf(candidate_in[i]) =
              ScoreFactor * SumSeq([j \in 1..Len(corpus) |->
                                     FeatureSimilarity(i, j) * RankWeight(Len(corpus), j)])

\* The same, for the runs in which the provider returned one vector per
\* candidate and per reference item.
C12_WhenFeaturesComplete ==
  (Succeeded /\ candidate_feature.n = Len(candidate_in)
             /\ corpus_feature.n = Len(corpus))
    => C12_ScoreIsWeightedSimilarity


\* ------------------------------------------------------------------- C13
\* The weights have been computed (line 221 has run).
WeightsComputed ==
  /\ pc \notin {"start", "sort_corpus", "weights"}
  /\ failed \notin {"provider", "timestamp"}

\* C13: for a reference sequence of length N >= 1 the weight vector has N
\* non-negative entries, non-increasing with the rank, that sum to 1; for
\* N = 1 it is [1.0].  In the representation (1/SCALE, each entry rounded
\* down) the sum is 1 up to less than one unit per entry.
C13_WeightsSumToOneNonIncreasing ==
  (WeightsComputed /\ Len(corpus) >= 1) =>
    /\ Len(weight) = Len(corpus)
    /\ \A r \in 1..Len(weight) : weight[r] >= 0
    /\ \A r \in 1..(Len(weight) - 1) : weight[r] >= weight[r + 1]
    /\ SumSeq(weight) <= SCALE
    /\ SumSeq(weight) > SCALE - Len(weight)
    /\ (Len(corpus) = 1 => weight = <<SCALE>>)

\* A run that has weighted three or more reference items, the newest heaviest.
C13_Witness ==
  /\ WeightsComputed
  /\ Len(corpus) >= 3
  /\ weight[1] > weight[2] /\ weight[2] > weight[3]


\* ------------------------------------------------------------------- C14
\* The answer to the candidates' batch lacked a vector.
CandidateVectorsShort ==
  \E c \in 1..Len(calls) : calls[c].caller = "candidate" /\ calls[c].outcome = "short"

\* C14: on every path through rerank_paper, success or caught failure, the
\* returned list is a permutation of the input candidates and each returned
\* candidate has a score, also when the encoder returned fewer vectors than
\* there are candidates.
C14_ReturnsAllCandidatesScored ==
  Returned =>
    /\ IsPermutationOf(result, candidate_in)
    /\ \A j \in 1..Len(result) : papers[result[j]].has_score

\* A run of two candidates whose encoder returned one vector: the loop scored
\* one of them, and the run returned.
C14_Witness ==
  /\ Returned
  /\ Len(candidate_in) = 2
  /\ CandidateVectorsShort
  /\ Len(scores) = 1
  /\ failed = "sort"


\* ------------------------------------------------------------------- C15
EmailAttempted == mail # "none"
Logged(level, what) == \E x \in 1..Len(log) : log[x] = LogRec(level, what)
EventAt(x, e) == x \in 1..Len(events) /\ events[x] = e

\* C15: with RSS generation enabled the feed is rendered and saved before
\* the email is attempted; a failing send_email is caught and logged, the
\* run ends without an exception and the saved feed stays as written; a
\* failing save is reported as False and the email is still attempted.
C15_RssBeforeEmailAndFailuresContained ==
  /\ (opts.generate_rss /\ EmailAttempted) =>
       /\ feed.made /\ saved # None
       /\ EventAt(1, "render_rss") /\ EventAt(2, "save_rss") /\ EventAt(3, "send_email")
  /\ mail = "failed" =>
       /\ pc = "main_done"
       /\ Logged("error", "email_failed")
  /\ saved = "True" => fs.file = AtomFile(feed)
  /\ saved = "False" =>
       /\ pc \in {"main_email", "main_done"}
       /\ Logged("error", "rss_failed")
       /\ (pc = "main_done" => EmailAttempted)

\* A run that saved the feed of two papers and whose email then failed.
C15_Witness ==
  /\ pc = "main_done"
  /\ opts.generate_rss
  /\ saved = "True"
  /\ Len(fs.file.entries) = 2
  /\ mail = "failed"

====
